---- MODULE Spec2Model ----
(***************************************************************************)
(* A model of cwalk, the concurrent directory walker: Walker.Walk, addJob, *)
(* processPath, worker and collectErrors, with the two channels (jobs,     *)
(* errors), the two wait groups (wg, ewg) and the error list.              *)
(*                                                                         *)
(* Execution contexts: main is the goroutine that calls Walk, pool is the  *)
(* bag of the worker goroutines (they run the same code and have no        *)
(* identity, so two workers in the same position are the same element),    *)
(* and the error collector is a context of its own (cpc, cval).  Every     *)
(* context that runs processPath has a call stack of frames, because       *)
(* addJob calls processPath synchronously when the job channel cannot take *)
(* the path.                                                               *)
(*                                                                         *)
(* The file system and the callback are the environment: the result of     *)
(* Lstat, of readDirNames and of walkFunc is chosen when the call is made  *)
(* and recorded (statFailed, listFailed, cbOut).  A panic of any goroutine *)
(* ends the Go process: no action is enabled once a context has panicked.  *)
(***************************************************************************)
EXTENDS Integers, Sequences, FiniteSets, Bags, TLC

\* ------------------------------------------------------------------ bounds
MaxNodes == 4
MaxWorkers == 2
MaxBuffer == 1
MaxFaults == 2
MaxCalls == 2

\* ------------------------------------------------------------ the file tree
\* Paths are numbered 1..MaxNodes; path 1 is the root handed to Walk and the
\* names of directory p, in listing order, are 2p and 2p+1.
Nodes == 1..MaxNodes
Root == 1
Parent(n) == n \div 2

VARIABLES
  calls,         \* the calls of Walk made on the Walker, this one included
  NumWorkers,    \* var NumWorkers
  BufferSize,    \* var BufferSize
  kind,          \* what Lstat reports for each path: "dir" or "file"
  main,          \* the goroutine that calls Walk: [who, pc, stack, arg, pend]
  pool,          \* the bag of worker goroutines, each [who, pc, stack, arg, pend]
  wg,            \* Walker.wg, the counter of outstanding jobs
  ewg,           \* Walker.ewg
  jobs,          \* Walker.jobs, the buffer of the channel
  jobsClosed,
  errors,        \* Walker.errors, the buffer of the channel
  errorsClosed,
  cpc,           \* position of collectErrors
  cval,          \* the WalkerError collectErrors has received
  errorList,     \* Walker.errorList.ErrorList
  ret,           \* what Walk returned
  visited,       \* history: number of walkFunc calls per path
  submitted,     \* history: number of addJob calls per path
  returned,      \* history: what processPath returned per path
  ranSync,       \* history: paths whose job ran in addJob's default branch
  cbOut,         \* history: what walkFunc returned per path
  statFailed,    \* history: paths whose Lstat failed
  listFailed     \* history: paths whose readDirNames failed

vars == <<calls, NumWorkers, BufferSize, kind, main, pool, wg, ewg, jobs,
          jobsClosed, errors, errorsClosed, cpc, cval, errorList, ret,
          visited, submitted, returned, ranSync, cbOut, statFailed, listFailed>>

config == <<calls, NumWorkers, BufferSize, kind>>
chans == <<jobs, jobsClosed, errors, errorsClosed>>
collector == <<cpc, cval, errorList>>
history == <<visited, submitted, returned, ranSync, cbOut, statFailed, listFailed>>

\* ------------------------------------------------------------- error values
\* An error value is a pair <<kind, path>>.
Nil == <<"nil", 0>>
None == <<"none", 0>>
SkipDir == <<"SkipDir", 0>>
ErrNotDir == <<"ErrNotDir", 0>>
StatErr(n) == <<"stat", n>>
ListErr(n) == <<"list", n>>
CbErr(n) == <<"cb", n>>

WalkerError(p, e) == [path |-> p, error |-> e]
NoError == WalkerError(0, None)

\* What Walk returns: nil, the ErrNotDir sentinel, a WalkerErrorList, or the
\* error value it was given as it is ("raw").
NotReturned == [shape |-> "none", err |-> None, list |-> <<>>]
RetNil == [shape |-> "nil", err |-> Nil, list |-> <<>>]
RetErrNotDir == [shape |-> "ErrNotDir", err |-> ErrNotDir, list |-> <<>>]
RetRaw(e) == [shape |-> "raw", err |-> e, list |-> <<>>]
RetList(l) == [shape |-> "WalkerErrorList", err |-> None, list |-> l]

\* ------------------------------------------------------------- environment
Outcomes == {"nil", "skip", "abort"}

\* The error value walkFunc returns for outcome o on path n.
walkFunc(n, o) ==
  IF o = "nil" THEN Nil ELSE IF o = "skip" THEN SkipDir ELSE CbErr(n)

\* readDirNames of a directory that can be read: its names in listing order.
readDirNames(p) ==
  SelectSeq(<<2 * p, 2 * p + 1>>, LAMBDA n : n \in Nodes)

\* A path exists when everything above it is a directory.
RECURSIVE Exists(_)
Exists(n) ==
  IF n = Root THEN TRUE
  ELSE kind[Parent(n)] = "dir" /\ Exists(Parent(n))

\* Path n lies below path d.
RECURSIVE IsUnder(_, _)
IsUnder(n, d) ==
  n > d /\ (Parent(n) = d \/ IsUnder(Parent(n), d))

\* The environment's failures and non-nil callback results so far.
FaultCount ==
  Cardinality({n \in Nodes : cbOut[n] \in {"skip", "abort"}})
  + Cardinality(statFailed) + Cardinality(listFailed)

\* The environment may answer with outcome o and stat failure sf.
MayChoose(sf, o) ==
  FaultCount + (IF sf THEN 1 ELSE 0) + (IF o # "nil" THEN 1 ELSE 0) <= MaxFaults

\* ---------------------------------------------------------------- contexts
Context(who, at) ==
  [who |-> who, pc |-> at, stack |-> <<>>, arg |-> 0, pend |-> NoError]

Workers == BagToSet(pool)
Ctxs == {main} \cup Workers
\* Parked without the workers: a send on w.jobs never meets a receiver.
ParkedMut == {}

Parked == {w \in Workers : w.pc = "parked"}
Crashed == \E c \in Ctxs : c.pc = "panic"

\* Context c becomes c2, in the pool P.
Become(c, c2, P) ==
  IF c.who = "main"
    THEN main' = c2 /\ pool' = P
    ELSE main' = main /\ pool' = (P (-) SetToBag({c})) (+) SetToBag({c2})

Top(c) == c.stack[Len(c.stack)]
Pop(s) == SubSeq(s, 1, Len(s) - 1)
\* Frame with the loop one name ahead: the first name is passed over.
FrameMut(p) == [path |-> p, i |-> 2]

Frame(p) == [path |-> p, i |-> 1]
Advance(s) == [s EXCEPT ![Len(s)].i = @ + 1]
Inc(f, n) == [f EXCEPT ![n] = @ + 1]

\* Where a context goes on when a call of processPath or addJob has returned:
\* back into the frame below, or (no frame left) to wg.Wait() in Walk and to
\* the next receive in worker.
Resume(c, stk) ==
  IF stk # <<>> THEN "proc" ELSE IF c.who = "main" THEN "wait" ELSE "loop"

\* -------------------------------------------------------------------- Init
\* A Walker{} has been constructed and Walk has not been called.
Init ==
  /\ calls = 1
  /\ NumWorkers \in 1..MaxWorkers
  /\ BufferSize \in 0..MaxBuffer
  /\ kind \in [Nodes -> {"dir", "file"}]
  /\ \A n \in Nodes \ {Root} : kind[Parent(n)] = "file" => kind[n] = "file"
  /\ main = Context("main", "start")
  /\ pool = EmptyBag
  /\ wg = 0
  /\ ewg = 0
  /\ jobs = <<>>
  /\ jobsClosed = FALSE
  /\ errors = <<>>
  /\ errorsClosed = FALSE
  /\ cpc = "idle"
  /\ cval = NoError
  /\ errorList = <<>>
  /\ ret = NotReturned
  /\ visited = [n \in Nodes |-> 0]
  /\ submitted = [n \in Nodes |-> 0]
  /\ returned = [n \in Nodes |-> None]
  /\ ranSync = {}
  /\ cbOut = [n \in Nodes |-> "none"]
  /\ statFailed = {}
  /\ listFailed = {}

\* ------------------------------------------------------------ Walker.Walk
\* make(chan ...), w.ewg.Add(1), go w.collectErrors()
WalkStart ==
  /\ main.pc = "start"
  /\ ~Crashed
  /\ errors' = <<>>
  /\ errorsClosed' = FALSE
  /\ jobs' = <<>>
  /\ jobsClosed' = FALSE
  /\ ewg' = ewg + 1
  /\ cpc' = "recv"
  /\ main' = [main EXCEPT !.pc = "rootcheck"]
  /\ UNCHANGED <<config, pool, wg, cval, errorList, ret, history>>

\* RootIsDir without the look at info: every root passes for a directory.
RootIsDirMut == TRUE

\* info.IsDir() of the root
RootIsDir == kind[Root] = "dir"

\* info, err := os.Lstat(root) fails: return err
RootStatFails ==
  /\ main.pc = "rootcheck"
  /\ ~Crashed
  /\ MayChoose(TRUE, "nil")
  /\ statFailed' = statFailed \cup {Root}
  /\ ret' = RetRaw(StatErr(Root))
  /\ main' = [main EXCEPT !.pc = "done"]
  /\ UNCHANGED <<config, pool, wg, ewg, chans, collector,
                 visited, submitted, returned, ranSync, cbOut, listFailed>>

\* Lstat succeeds: err = w.walkFunc(root, info, err); return err, return
\* ErrNotDir, or go on to spawn the workers
RootCheck ==
  /\ main.pc = "rootcheck"
  /\ ~Crashed
  /\ \E o \in Outcomes :
       /\ MayChoose(FALSE, o)
       /\ visited' = Inc(visited, Root)
       /\ cbOut' = [cbOut EXCEPT ![Root] = o]
       /\ IF walkFunc(Root, o) # Nil
            THEN /\ ret' = RetRaw(walkFunc(Root, o))
                 /\ main' = [main EXCEPT !.pc = "done"]
            ELSE IF ~RootIsDir
              THEN /\ ret' = RetErrNotDir
                   /\ main' = [main EXCEPT !.pc = "done"]
              ELSE /\ ret' = ret
                   /\ main' = [main EXCEPT !.pc = "spawn"]
  /\ UNCHANGED <<config, pool, wg, ewg, chans, collector,
                 submitted, returned, ranSync, statFailed, listFailed>>

\* for n := 1; n <= NumWorkers; n++ { go w.worker() }
SpawnWorkers ==
  /\ main.pc = "spawn"
  /\ ~Crashed
  /\ pool' = pool (+) (Context("worker", "loop") :> NumWorkers)
  /\ main' = [main EXCEPT !.pc = "addroot"]
  /\ UNCHANGED <<config, wg, ewg, chans, collector, ret, history>>

\* w.addJob(root): w.wg.Add(1), up to the select
AddJobRoot ==
  /\ main.pc = "addroot"
  /\ ~Crashed
  /\ wg' = wg + 1
  /\ submitted' = Inc(submitted, Root)
  /\ main' = [main EXCEPT !.pc = "select", !.arg = Root]
  /\ UNCHANGED <<config, pool, ewg, chans, collector, ret, visited,
                 returned, ranSync, cbOut, statFailed, listFailed>>

\* wgWait without the wait: Walk goes on while jobs are outstanding.
wgWaitMut == TRUE

\* w.wg.Wait() may return
wgWait == wg = 0

\* w.wg.Wait()
Wait ==
  /\ main.pc = "wait"
  /\ ~Crashed
  /\ wgWait
  /\ main' = [main EXCEPT !.pc = "closejobs"]
  /\ UNCHANGED <<config, pool, wg, ewg, chans, collector, ret, history>>

\* close(w.jobs)
CloseJobs ==
  /\ main.pc = "closejobs"
  /\ ~Crashed
  /\ jobsClosed' = TRUE
  /\ main' = [main EXCEPT !.pc = "closeerrors"]
  /\ UNCHANGED <<config, pool, wg, ewg, jobs, errors, errorsClosed,
                 collector, ret, history>>

\* close(w.errors)
CloseErrors ==
  /\ main.pc = "closeerrors"
  /\ ~Crashed
  /\ errorsClosed' = TRUE
  /\ main' = [main EXCEPT !.pc = "ewait"]
  /\ UNCHANGED <<config, pool, wg, ewg, jobs, jobsClosed, errors,
                 collector, ret, history>>

\* WalkReturn without w.ewg.Wait(): Walk reads the list as soon as the
\* channels are closed.
WalkReturnMut ==
  /\ main.pc = "ewait"
  /\ ~Crashed
  /\ ret' = IF Len(errorList) > 0 THEN RetList(errorList) ELSE RetNil
  /\ main' = [main EXCEPT !.pc = "done"]
  /\ UNCHANGED <<config, pool, wg, ewg, chans, collector, history>>

\* w.ewg.Wait(); return w.errorList or nil
WalkReturn ==
  /\ main.pc = "ewait"
  /\ ~Crashed
  /\ ewg = 0
  /\ ret' = IF Len(errorList) > 0 THEN RetList(errorList) ELSE RetNil
  /\ main' = [main EXCEPT !.pc = "done"]
  /\ UNCHANGED <<config, pool, wg, ewg, chans, collector, history>>


\* ------------------------------------------------------ Walker.processPath
\* The context c after its processPath returned e: the caller (addJob's
\* default branch, or worker) goes on to send a WalkerError when e is not nil.
AfterReturn(c, e) ==
  [c EXCEPT !.stack = Pop(c.stack),
            !.pend = IF e # Nil THEN WalkerError(Top(c).path, e) ELSE NoError,
            !.pc = IF e # Nil THEN "send" ELSE Resume(c, Pop(c.stack))]

\* Return without the deferred call: the counter keeps the job.
ReturnMut(c, e) ==
  /\ wg' = wg
  /\ returned' = [returned EXCEPT ![Top(c).path] = e]
  /\ Become(c, AfterReturn(c, e), pool)

\* processPath returns e: the deferred w.wg.Done() runs
Return(c, e) ==
  /\ wg' = wg - 1
  /\ returned' = [returned EXCEPT ![Top(c).path] = e]
  /\ Become(c, AfterReturn(c, e), pool)

\* names, err := readDirNames(path) fails: return err
ListFails(c) ==
  /\ c.pc = "proc"
  /\ ~Crashed
  /\ Top(c).i = 1
  /\ kind[Top(c).path] # "dir" \/ MayChoose(TRUE, "nil")
  /\ listFailed' = listFailed \cup {Top(c).path}
  /\ Return(c, ListErr(Top(c).path))
  /\ UNCHANGED <<config, ewg, chans, collector, ret, visited, submitted,
                 ranSync, cbOut, statFailed>>

\* ShouldDescend without err == nil: every directory is descended into,
\* whatever walkFunc returned.
ShouldDescendMut(err, ch) == kind[ch] = "dir"

\* err == nil && info.IsDir(), for a child whose Lstat succeeded
ShouldDescend(err, ch) == err = Nil /\ kind[ch] = "dir"

\* err != nil && err != filepath.SkipDir
ShouldReturn(err) == err # Nil /\ err # SkipDir

\* One turn of the loop over names: Lstat and walkFunc on the child, then
\* addJob up to its select (w.wg.Add(1)), or return err, or the next name.
\* When Lstat failed info is nil, and info.IsDir() panics.
Visit(c) ==
  /\ c.pc = "proc"
  /\ ~Crashed
  /\ kind[Top(c).path] = "dir"
  /\ Top(c).i <= Len(readDirNames(Top(c).path))
  /\ \E sf \in BOOLEAN, o \in Outcomes :
       LET ch == readDirNames(Top(c).path)[Top(c).i]
           err == walkFunc(ch, o)
       IN
       /\ MayChoose(sf, o)
       /\ visited' = Inc(visited, ch)
       /\ cbOut' = [cbOut EXCEPT ![ch] = o]
       /\ statFailed' = IF sf THEN statFailed \cup {ch} ELSE statFailed
       /\ IF err = Nil /\ sf
            THEN /\ Become(c, [c EXCEPT !.pc = "panic"], pool)
                 /\ UNCHANGED <<wg, submitted, returned>>
            ELSE IF ~sf /\ ShouldDescend(err, ch)
              THEN /\ wg' = wg + 1
                   /\ submitted' = Inc(submitted, ch)
                   /\ Become(c, [c EXCEPT !.pc = "select", !.arg = ch,
                                          !.stack = Advance(c.stack)], pool)
                   /\ UNCHANGED returned
              ELSE IF ShouldReturn(err)
                THEN /\ Return(c, err)
                     /\ UNCHANGED submitted
                ELSE /\ Become(c, [c EXCEPT !.stack = Advance(c.stack)], pool)
                     /\ UNCHANGED <<wg, submitted, returned>>
  /\ UNCHANGED <<config, ewg, chans, collector, ret, ranSync, listFailed>>

\* the loop over names is over: return nil
ReturnNil(c) ==
  /\ c.pc = "proc"
  /\ ~Crashed
  /\ kind[Top(c).path] = "dir"
  /\ Top(c).i > Len(readDirNames(Top(c).path))
  /\ Return(c, Nil)
  /\ UNCHANGED <<config, ewg, chans, collector, ret, visited, submitted,
                 ranSync, cbOut, statFailed, listFailed>>

\* ----------------------------------------------------------- Walker.addJob
\* case w.jobs <- path can proceed: a receiver is parked or the buffer has room
\* CanSend with the bound off by one: the buffer takes one path more than
\* its capacity.
CanSendMut == Parked # {} \/ Len(jobs) <= BufferSize

CanSend == Parked # {} \/ Len(jobs) < BufferSize

\* The context c after addJob returned without running the job itself.
AfterAddJob(c) == [c EXCEPT !.arg = 0, !.pc = Resume(c, c.stack)]

\* select { case w.jobs <- path: ... }: the path goes to a parked worker or
\* into the buffer
Enqueue(c) ==
  /\ c.pc = "select"
  /\ ~Crashed
  /\ CanSend
  /\ IF Parked # {}
       THEN /\ \E w \in Parked :
                 Become(c, AfterAddJob(c),
                        (pool (-) SetToBag({w})) (+)
                        SetToBag({[w EXCEPT !.pc = "proc",
                                            !.stack = <<Frame(c.arg)>>]}))
            /\ jobs' = jobs
       ELSE /\ jobs' = Append(jobs, c.arg)
            /\ Become(c, AfterAddJob(c), pool)
  /\ UNCHANGED <<config, wg, ewg, jobsClosed, errors, errorsClosed,
                 collector, ret, history>>

\* select { ... default: err := w.processPath(path) ... }
Fallback(c) ==
  /\ c.pc = "select"
  /\ ~Crashed
  /\ ~CanSend
  /\ ranSync' = ranSync \cup {c.arg}
  /\ Become(c, [c EXCEPT !.pc = "proc", !.arg = 0,
                         !.stack = Append(c.stack, Frame(c.arg))], pool)
  /\ UNCHANGED <<config, wg, ewg, chans, collector, ret, visited,
                 submitted, returned, cbOut, statFailed, listFailed>>

\* The context c after its send on w.errors.
AfterSend(c) == [c EXCEPT !.pend = NoError, !.pc = Resume(c, c.stack)]

\* w.errors <- WalkerError{...}, in addJob and in worker: blocks while the
\* channel is full (unbuffered: until collectErrors receives)
SendError(c) ==
  /\ c.pc = "send"
  /\ ~Crashed
  /\ ~errorsClosed
  /\ \/ /\ Len(errors) < BufferSize
        /\ errors' = Append(errors, c.pend)
        /\ UNCHANGED <<cpc, cval>>
     \/ /\ BufferSize = 0
        /\ cpc = "recv"
        /\ cval' = c.pend
        /\ cpc' = "append"
        /\ errors' = errors
  /\ Become(c, AfterSend(c), pool)
  /\ UNCHANGED <<config, wg, ewg, jobs, jobsClosed, errorsClosed,
                 errorList, ret, history>>

\* the send finds w.errors closed (or, blocked, is overtaken by the close):
\* panic
SendOnClosed(c) ==
  /\ c.pc = "send"
  /\ ~Crashed
  /\ errorsClosed
  /\ Become(c, [c EXCEPT !.pc = "panic"], pool)
  /\ UNCHANGED <<config, wg, ewg, chans, collector, ret, history>>

\* ----------------------------------------------------------- Walker.worker
\* for path := range w.jobs: take a path, leave when the channel is closed
\* and empty, or park
WorkerReceive(w) ==
  /\ w.pc = "loop"
  /\ ~Crashed
  /\ IF jobs # <<>>
       THEN /\ Become(w, [w EXCEPT !.pc = "proc",
                                   !.stack = <<Frame(Head(jobs))>>], pool)
            /\ jobs' = Tail(jobs)
       ELSE /\ Become(w, [w EXCEPT !.pc = IF jobsClosed THEN "exit"
                                          ELSE "parked"], pool)
            /\ jobs' = jobs
  /\ UNCHANGED <<config, wg, ewg, jobsClosed, errors, errorsClosed,
                 collector, ret, history>>

\* a parked worker is woken by close(w.jobs)
WorkerExit(w) ==
  /\ w.pc = "parked"
  /\ ~Crashed
  /\ jobsClosed
  /\ Become(w, [w EXCEPT !.pc = "exit"], pool)
  /\ UNCHANGED <<config, wg, ewg, chans, collector, ret, history>>

\* --------------------------------------------------- Walker.collectErrors
\* for err := range w.errors
CollectReceive ==
  /\ cpc = "recv"
  /\ ~Crashed
  /\ errors # <<>>
  /\ cval' = Head(errors)
  /\ errors' = Tail(errors)
  /\ cpc' = "append"
  /\ UNCHANGED <<config, main, pool, wg, ewg, jobs, jobsClosed,
                 errorsClosed, errorList, ret, history>>

\* w.errorList.ErrorList = append(w.errorList.ErrorList, err)
CollectAppend ==
  /\ cpc = "append"
  /\ ~Crashed
  /\ errorList' = Append(errorList, cval)
  /\ cval' = NoError
  /\ cpc' = "recv"
  /\ UNCHANGED <<config, main, pool, wg, ewg, chans, ret, history>>

\* the range loop ends on the closed, drained channel: defer w.ewg.Done()
CollectExit ==
  /\ cpc = "recv"
  /\ ~Crashed
  /\ errors = <<>>
  /\ errorsClosed
  /\ ewg' = ewg - 1
  /\ cpc' = "exit"
  /\ UNCHANGED <<config, main, pool, wg, chans, cval, errorList, ret, history>>

\* ------------------------------------------------------------------- Next
Next ==
  \/ WalkStart
  \/ RootStatFails
  \/ RootCheck
  \/ SpawnWorkers
  \/ AddJobRoot
  \/ Wait
  \/ CloseJobs
  \/ CloseErrors
  \/ WalkReturn
  \/ \E c \in Ctxs : ListFails(c)
  \/ \E c \in Ctxs : Visit(c)
  \/ \E c \in Ctxs : ReturnNil(c)
  \/ \E c \in Ctxs : Enqueue(c)
  \/ \E c \in Ctxs : Fallback(c)
  \/ \E c \in Ctxs : SendError(c)
  \/ \E c \in Ctxs : SendOnClosed(c)
  \/ \E w \in Workers : WorkerReceive(w)
  \/ \E w \in Workers : WorkerExit(w)
  \/ CollectReceive
  \/ CollectAppend
  \/ CollectExit

Spec == Init /\ [][Next]_vars


\* ================================================================= claims
WalkDone == main.pc = "done"

\* Walk came back from its last line (not from the root check).
NormalReturn == WalkDone /\ ret.shape \in {"nil", "WalkerErrorList"}

RECURSIVE Sum(_, _)
Sum(f, S) ==
  IF S = {} THEN 0
  ELSE LET x == CHOOSE y \in S : TRUE IN f[x] + Sum(f, S \ {x})

\* The counters of the callback of traversaltime: entries seen as directories
\* and as files.
folderCount == Sum(visited, {n \in Nodes : n \notin statFailed /\ kind[n] = "dir"})
fileCount == Sum(visited, {n \in Nodes : n \notin statFailed /\ kind[n] = "file"})

\* Frame k of some context is processPath(p), about to visit name s.
Pending(p, s) ==
  \E c \in Ctxs : \E k \in DOMAIN c.stack :
    /\ c.stack[k].path = p
    /\ c.stack[k].i <= Len(readDirNames(p))
    /\ readDirNames(p)[c.stack[k].i] = s

\* C1: with no I/O failure and a callback that always returns nil, when Walk
\* has returned the callback has been called exactly once for every path
\* that exists under the root (the root included) and for no other path, for
\* every NumWorkers and BufferSize (0 included); the file and directory
\* counts are those of the tree, as a single-threaded walk counts them.
C1_VisitedExactlyOnce ==
  (WalkDone /\ FaultCount = 0) =>
    /\ \A n \in Nodes : visited[n] = IF Exists(n) THEN 1 ELSE 0
    /\ folderCount = Cardinality({n \in Nodes : Exists(n) /\ kind[n] = "dir"})
    /\ fileCount = Cardinality({n \in Nodes : Exists(n) /\ kind[n] = "file"})

\* A walk of the whole three-level tree with an unbuffered job channel, part
\* of it run in addJob's default branch, has returned nil.
C1_Witness ==
  /\ WalkDone
  /\ FaultCount = 0
  /\ BufferSize = 0
  /\ kind[2] = "dir"
  /\ ranSync # {}
  /\ ret = RetNil
  /\ visited[4] = 1

\* C2: no context is at (or blocked in) a send on the error channel once
\* the channel is closed.
C2_NoSendAfterClose ==
  errorsClosed => \A c \in Ctxs : c.pc # "send"

\* The WalkerErrors that are due: one for every job whose processPath
\* returned an error.
DueErrors ==
  {WalkerError(n, returned[n]) : n \in {m \in Nodes : returned[m] \notin {None, Nil}}}

\* C3: when Walk returns from its last line, the list holds exactly one
\* record for every job whose processing returned an error and nothing else,
\* and Walk returns the list if it is not empty and nil otherwise.
C3_AllErrorsCollected ==
  NormalReturn =>
    /\ {errorList[k] : k \in DOMAIN errorList} = DueErrors
    /\ Len(errorList) = Cardinality(DueErrors)
    /\ ret = IF errorList = <<>> THEN RetNil ELSE RetList(errorList)

\* C4: Walk returns, whatever the callback returns: in a walk without I/O
\* failure, a state in which Walk has not returned has a next step.
C4_WalkReturns ==
  (statFailed = {} /\ listFailed = {}) => (WalkDone \/ ENABLED Next)

\* C5: when walkFunc returned SkipDir for a path D below the root, D is never
\* given to addJob and walkFunc is never called for a path below D; the names
\* listed after D in D's directory are still visited: each has been visited
\* once or is the one processPath of that directory has yet to visit, and has
\* been visited when Walk returns from its last line.
C5_SkipSubtree ==
  \A d \in Nodes \ {Root} :
    cbOut[d] = "skip" =>
      /\ submitted[d] = 0
      /\ \A n \in Nodes : IsUnder(n, d) => visited[n] = 0
      /\ \A s \in Nodes :
           (Parent(s) = Parent(d) /\ s > d) =>
             /\ visited[s] = 1 \/ (visited[s] = 0 /\ Pending(Parent(d), s))
             /\ NormalReturn => visited[s] = 1

\* walkFunc returned SkipDir for directory 2, which has a name below it; its
\* sibling 3 has been visited and Walk has returned.
C5_Witness ==
  /\ NormalReturn
  /\ cbOut[2] = "skip"
  /\ kind[2] = "dir"
  /\ 2 \notin statFailed
  /\ visited[3] = 1
  /\ visited[4] = 0

\* C6: SkipDir is success: it puts no record in the list, and a walk of a
\* directory with no I/O failure whose callback returned nothing but nil and
\* SkipDir returns nil.
C6_SkipIsSuccess ==
  /\ \A k \in DOMAIN errorList : errorList[k].error # SkipDir
  /\ (/\ WalkDone
      /\ RootIsDir
      /\ statFailed = {}
      /\ listFailed = {}
      /\ \A n \in Nodes : cbOut[n] # "abort") => ret = RetNil

\* C7: when walkFunc returned an error for child e of directory p, no name
\* listed after e in p is visited, and when Walk returns from its last line
\* the list holds the error once, for p, and every job that was submitted has
\* been processed to its end.
C7_AbortIsLocal ==
  \A e \in Nodes \ {Root} :
    cbOut[e] = "abort" =>
      /\ \A s \in Nodes : (Parent(s) = Parent(e) /\ s > e) => visited[s] = 0
      /\ NormalReturn =>
           /\ Cardinality({k \in DOMAIN errorList :
                 errorList[k] = WalkerError(Parent(e), CbErr(e))}) = 1
           /\ \A n \in Nodes : submitted[n] > 0 => returned[n] # None

\* C8: for a root that exists and is not a directory, with a callback that
\* returns nil, the callback is called once, for the root, Walk returns
\* ErrNotDir, no worker is started and no job is submitted.
C8_RootNotDir ==
  (kind[Root] = "file" /\ cbOut[Root] = "nil") =>
    /\ visited = [n \in Nodes |-> IF n = Root THEN 1 ELSE 0]
    /\ submitted = [n \in Nodes |-> 0]
    /\ pool = EmptyBag
    /\ wg = 0
    /\ WalkDone
    /\ ret = RetErrNotDir

\* Walk has returned ErrNotDir for a root that is a file.
C8_Witness ==
  /\ WalkDone
  /\ kind[Root] = "file"
  /\ visited[Root] = 1
  /\ ret = RetErrNotDir

\* C9: what Walk returns is nil, ErrNotDir or a WalkerErrorList.
C9_ReturnShapes ==
  WalkDone => ret.shape \in {"nil", "ErrNotDir", "WalkerErrorList"}

\* C10: the root check calls walkFunc for the root exactly once, also when
\* Lstat of the root failed.
C10_RootThroughCallback ==
  WalkDone => visited[Root] = 1 /\ cbOut[Root] # "none"


\* ---------------------------------------------- the outcome of a walk
\* What a walk must visit and report, from the tree and the answers of the
\* file system and of the callback alone, with no reference to NumWorkers,
\* BufferSize or the interleaving.

\* processPath is called for path p: walkFunc returned nil for it and it is
\* a directory.
Descended(p) ==
  cbOut[p] = "nil" /\ p \notin statFailed /\ kind[p] = "dir"

\* walkFunc is called for path n: for the root, and for a name of a directory
\* that is processed and listed, when no name before it ended the loop.
RECURSIVE Expected(_)
Expected(n) ==
  IF n = Root THEN TRUE
  ELSE /\ Expected(Parent(n))
       /\ Descended(Parent(n))
       /\ Parent(n) \notin listFailed
       /\ \A s \in Nodes :
            (Parent(s) = Parent(n) /\ s < n) => cbOut[s] \in {"nil", "skip"}

\* The records a walk must report: the listing failure of a processed
\* directory, or the first error walkFunc returned for one of its names.
ExpectedErrors ==
  {WalkerError(q, ListErr(q)) :
     q \in {m \in Nodes : Expected(m) /\ Descended(m) /\ m \in listFailed}}
  \cup
  {WalkerError(Parent(e), CbErr(e)) :
     e \in {m \in Nodes \ {Root} : Expected(m) /\ cbOut[m] = "abort"}}

\* C11: for a fixed tree and a deterministic callback, the set of visited
\* paths and the set of records Walk returns are the same for BufferSize 0, 1
\* and more, in every interleaving: when Walk returns from its last line they
\* are the sets the tree and the callback's answers determine.
C11_SameForEveryCapacity ==
  NormalReturn =>
    /\ \A n \in Nodes : visited[n] = IF Expected(n) THEN 1 ELSE 0
    /\ {ret.list[k] : k \in DOMAIN ret.list} = ExpectedErrors


\* ------------------------------------------------------------ shutdown
\* The jobs whose processPath has returned.
Completed == {n \in Nodes : returned[n] # None}

\* C12: the job queue and the error channel are closed only when the job
\* counter is zero: as many jobs completed as were added, the queue is empty
\* and no context is in processPath or addJob; the error channel is closed
\* only after the job queue; and Walk returns from its last line only after
\* the collector saw the error channel closed and drained, and finished.
C12_ShutdownOrder ==
  /\ jobsClosed =>
       /\ wg = 0
       /\ \A n \in Nodes : submitted[n] = IF n \in Completed THEN 1 ELSE 0
       /\ jobs = <<>>
       /\ \A c \in Ctxs : c.stack = <<>> /\ c.pc \notin {"proc", "select"}
  /\ errorsClosed => jobsClosed
  /\ NormalReturn =>
       /\ jobsClosed /\ errorsClosed
       /\ errors = <<>> /\ cpc = "exit" /\ ewg = 0

C12_Witness ==
  /\ NormalReturn
  /\ errorList # <<>>
  /\ Cardinality(Completed) >= 2


\* --------------------------------------------------------- the job counter
\* The calls of processPath in progress, in all contexts: a worker's, and
\* those nested in the default branch of addJob.
InProgress ==
  Len(main.stack)
  + BagCardinality([w \in {x \in Workers : x.stack # <<>>} |->
                      CopiesIn(w, pool) * Len(w.stack)])

\* The calls of addJob that are past w.wg.Add(1) and before their select.
Adding ==
  (IF main.pc = "select" THEN 1 ELSE 0)
  + BagCardinality([w \in {x \in Workers : x.pc = "select"} |->
                      CopiesIn(w, pool)])

\* C13 as stated: in every reachable state the counter equals the number of
\* jobs queued plus the number of processPath executions in progress.
C13_CounterIsQueuedPlusRunning ==
  wg = Len(jobs) + InProgress

\* C13: every addJob adds one to the counter before the job is queued or
\* run, every job takes one off exactly once, however its processPath ends;
\* in every reachable state the counter is not negative and equals the jobs
\* added and not completed, which are the jobs queued, the processPath
\* executions in progress, and the jobs of the addJob calls that have added
\* to the counter and not yet queued or started their job.
C13_CounterBalance ==
  [](/\ wg >= 0
     /\ \A n \in Nodes : submitted[n] <= 1 /\ (n \in Completed => submitted[n] = 1)
     /\ wg = Cardinality({n \in Nodes : submitted[n] = 1}) - Cardinality(Completed)
     /\ wg = Len(jobs) + InProgress + Adding)

\* A job has completed, one job is queued, one is in progress and one is
\* between Add and select.
C13_Witness ==
  /\ Completed # {}
  /\ Len(jobs) = 1 /\ Adding = 1 /\ wg = 3


\* -------------------------------------------------------- suspension points
\* A step of the worker w, and a step of the collector.
WorkerStep(w) ==
  \/ WorkerReceive(w) \/ WorkerExit(w)
  \/ ListFails(w) \/ Visit(w) \/ ReturnNil(w)
  \/ Enqueue(w) \/ Fallback(w)
  \/ SendError(w) \/ SendOnClosed(w)

CollectorStep == CollectReceive \/ CollectAppend \/ CollectExit

\* The worker w has not left its loop and cannot take a step; the same for
\* the collector.  (After a panic the process is gone: nothing is blocked.)
WorkerBlocked(w) == ~Crashed /\ w.pc # "exit" /\ ~ENABLED WorkerStep(w)
CollectorBlocked == ~Crashed /\ cpc \notin {"idle", "exit"} /\ ~ENABLED CollectorStep

\* C14 as stated: a worker is blocked only in its receive from the job queue,
\* never while it sends an error on the error channel.
C14_WorkerBlocksOnlyOnReceive ==
  \A w \in Workers : WorkerBlocked(w) => w.pc = "parked"

\* C14: a worker is blocked only in its receive from the job queue, the queue
\* being empty and open, or in its send on the error channel, the channel
\* being full and the collector able to take the step that makes room; the
\* collector is blocked only in its receive from the error channel, the
\* channel being empty and open.
C14_SuspensionPoints ==
  [](/\ \A w \in Workers :
          \/ w.pc = "parked" /\ jobs = <<>> /\ ~jobsClosed
          \/ /\ w.pc = "send" /\ ~errorsClosed
             /\ Len(errors) >= BufferSize
             /\ ENABLED CollectorStep
          \/ ~WorkerBlocked(w)
     /\ CollectorBlocked => cpc = "recv" /\ errors = <<>> /\ ~errorsClosed)

\* A worker is blocked in its send on the error channel.
C14_Witness ==
  \E w \in Workers : WorkerBlocked(w) /\ w.pc = "send"


\* ------------------------------------------------------- the error list
\* C15: the error list changes only by the collector appending the error it
\* received, in a step that moves no other context; Walk reads the list (the
\* step from w.ewg.Wait() to its return) only when the collector has finished;
\* and once the collector has finished the list does not change any more.
C15_OnlyCollectorAppends ==
  [][ /\ errorList' # errorList =>
           /\ cpc = "append" /\ cpc' = "recv"
           /\ errorList' = Append(errorList, cval)
           /\ main' = main /\ pool' = pool
      /\ (main.pc = "ewait" /\ main'.pc = "done") =>
           /\ cpc = "exit" /\ ewg = 0
           /\ ret' \in {RetNil, RetList(errorList)}
      /\ cpc = "exit" => errorList' = errorList
    ]_vars

\* Walk has read a list of two records, after the collector finished.
C15_Witness ==
  /\ NormalReturn
  /\ cpc = "exit"
  /\ Len(errorList) = 2
  /\ ret = RetList(errorList)


\* ------------------------------------------------------------ backpressure
\* The contexts that are running processPath, each worker counted.
Running ==
  (IF main.stack # <<>> THEN 1 ELSE 0)
  + BagCardinality([w \in {x \in Workers : x.stack # <<>>} |->
                      CopiesIn(w, pool)])

\* C16: the job queue never holds more paths than BufferSize; addJob never
\* blocks at its select: it can always either send the path or run
\* processPath itself; and at most NumWorkers + 1 contexts are running
\* processPath, the workers and the context of Walk.
C16_Backpressure ==
  /\ Len(jobs) <= BufferSize
  /\ \A c \in Ctxs :
       (c.pc = "select" /\ ~Crashed) => ENABLED (Enqueue(c) \/ Fallback(c))
  /\ BagCardinality(pool) \in {0, NumWorkers}
  /\ Running <= NumWorkers + 1

\* Both workers and the context of Walk are running processPath, and an
\* addJob at its select finds the queue full.
C16_Witness ==
  /\ NumWorkers = 2 /\ Running = NumWorkers + 1
  /\ Len(jobs) = BufferSize
  /\ \E c \in Ctxs : c.pc = "select" /\ ~CanSend


\* ------------------------------------------------ a Walker used once more
\* The caller calls Walk again on the same Walker, when the call before has
\* returned from its last line and the goroutines it started have ended.
\* The Walker is as that call left it; the file system and the callback
\* answer anew.
WalkAgain ==
  /\ NormalReturn
  /\ \A w \in Workers : w.pc = "exit"
  /\ cpc = "exit"
  /\ calls < MaxCalls
  /\ calls' = calls + 1
  /\ main' = Context("main", "start")
  /\ pool' = EmptyBag
  /\ ret' = NotReturned
  /\ visited' = [n \in Nodes |-> 0]
  /\ submitted' = [n \in Nodes |-> 0]
  /\ returned' = [n \in Nodes |-> None]
  /\ ranSync' = {}
  /\ cbOut' = [n \in Nodes |-> "none"]
  /\ statFailed' = {}
  /\ listFailed' = {}
  /\ UNCHANGED <<NumWorkers, BufferSize, kind, wg, ewg, chans, collector>>

NextReuse == Next \/ WalkAgain

SpecReuse == Init /\ [][NextReuse]_vars

\* C17: no state persists across calls: at the start of every call of Walk
\* the error list is empty, and a call after the first returns only the
\* errors of its own jobs, nil when it has none.
C17_NoStateAcrossCalls ==
  /\ main.pc = "start" => errorList = <<>>
  /\ (calls > 1 /\ NormalReturn) =>
       /\ {ret.list[k] : k \in DOMAIN ret.list} \subseteq DueErrors
       /\ DueErrors = {} => ret = RetNil


\* ------------------------------------------------- what a call leaves behind
\* No goroutine started by the call is left: every worker has left its loop
\* and the collector, if it was started, has finished.
NothingLeft ==
  /\ \A w \in Workers : w.pc = "exit"
  /\ cpc \in {"idle", "exit"}

\* C18: after Walk has returned, on every return path, no goroutine the call
\* started runs or stays blocked forever: when Walk has returned and no step
\* is left to take, every worker and the collector have ended; and after a
\* return from the root check no worker and no collector exists.
C18_NothingLeftRunning ==
  /\ (WalkDone /\ ~Crashed /\ ~ENABLED Next) => NothingLeft
  /\ (WalkDone /\ ~NormalReturn) => (pool = EmptyBag /\ NothingLeft)


\* ------------------------------------------------- a name whose Lstat fails
\* A context has panicked inside processPath: info.IsDir() on a nil info.
\* (The other panic, of a send on the closed error channel, happens with the
\* WalkerError in hand.)
NilInfoPanic == \E c \in Ctxs : c.pc = "panic" /\ c.pend = NoError

\* C19: when the Lstat of a name fails, walkFunc is called for it with the
\* error of Lstat; whatever walkFunc returns, processPath does not look at
\* the missing info, does not give the name to addJob and does not crash;
\* and when walkFunc returned nil the names after it are visited.
C19_StatFailureHandled ==
  \A n \in statFailed \ {Root} :
    /\ visited[n] = 1 /\ cbOut[n] # "none"
    /\ submitted[n] = 0
    /\ ~NilInfoPanic
    /\ (cbOut[n] = "nil" /\ WalkDone /\ n = 2 * Parent(n)
        /\ Exists(n + 1) /\ n + 1 \in Nodes) => visited[n + 1] = 1


\* ------------------------------------------------------ order of the visits
\* The frames of processPath(p) alive, in all contexts.
FramesIn(c, p) == Cardinality({k \in DOMAIN c.stack : c.stack[k].path = p})

FramesOf(p) ==
  FramesIn(main, p)
  + BagCardinality([w \in {x \in Workers : FramesIn(x, p) > 0} |->
                      CopiesIn(w, pool) * FramesIn(w, p)])

\* C20: walkFunc has returned nil for a directory before it is called for any
\* of its names; the names of one directory are visited one after the other
\* in the order of the listing, by the one context that runs processPath for
\* that directory: there is never more than one such call, and while it runs
\* the names visited are exactly those before its loop index.
C20_VisitOrder ==
  [](/\ \A n \in Nodes \ {Root} :
          visited[n] > 0 =>
            /\ visited[Parent(n)] = 1
            /\ cbOut[Parent(n)] = "nil"
            /\ submitted[Parent(n)] = 1
            /\ \A s \in Nodes :
                 (Parent(s) = Parent(n) /\ s < n) =>
                    visited[s] = 1 /\ cbOut[s] \in {"nil", "skip"}
     /\ \A q \in Nodes : submitted[q] <= 1
     /\ LET busy == {c \in Ctxs : c.stack # <<>>}
            PathsIn(c) == {c.stack[k].path : k \in DOMAIN c.stack}
        IN \A c \in busy :
             /\ c.who = "worker" => CopiesIn(c, pool) = 1
             /\ Cardinality(PathsIn(c)) = Len(c.stack)
             /\ \A d \in busy \ {c} : PathsIn(c) \cap PathsIn(d) = {}
             /\ ~Crashed =>
                  \A k \in DOMAIN c.stack :
                    LET f == c.stack[k]
                        names == readDirNames(f.path)
                    IN \A j \in DOMAIN names :
                         visited[names[j]] = IF j < f.i THEN 1 ELSE 0)

\* Names of different directories in no order: a name of directory 2 has
\* been visited while the second name of the root has not, and the loops of
\* both directories are running, in two contexts.
C20_Witness ==
  /\ visited[2 * 2] = 1
  /\ visited[2 * Root + 1] = 0
  /\ FramesOf(Root) = 1 /\ FramesOf(2) = 1
  /\ \A c \in Ctxs : Len(c.stack) <= 1

====
